---- MODULE Spec2Model ----
(***************************************************************************)
(* goxpress: the route forest (one tree per HTTP method, literal, ':name' *)
(* and '*name' segments) and the middleware dispatch chain (Context.Next, *)
(* Context.Abort, error handlers) driven by Engine.ServeHTTP.             *)
(*                                                                         *)
(* Strings are TLA+ strings; a character of s is SubSeq(s, i, i).          *)
(* A *routerNode is an index into the node arena of its tree (a sequence  *)
(* of node records whose first element is the root); Nil is the nil       *)
(* pointer.  A HandlerFunc is the name of a function whose body is the    *)
(* operation list Code(name).                                              *)
(***************************************************************************)
EXTENDS Integers, Sequences, FiniteSets, TLC

VARIABLES
    routes,         \* Router.routes: method -> tree, shared by every group
    routers,        \* the Router objects: routers[1] is Engine.router
    middlewares,    \* Engine.middlewares
    errorHandlers,  \* Engine.errorHandlers
    serving,        \* the serving phase has begun: registration is over
    pc,             \* position of Engine.ServeHTTP: idle, chain, errors, reset
    c,              \* the Context of the request being served
    w,              \* the http.ResponseWriter of the request being served
    stack,          \* call stack below ServeHTTP: Next frames and handler frames
    found,          \* the result of the last Router.getRoute call
    regs,           \* history: the addRoute calls made so far, in order
    calls,          \* history: chain positions invoked in this request, in order
    order,          \* history: what the handlers of this request recorded
    errCalls,       \* history: error handler invocations of this request
    lookups         \* the Router.getRoute calls running on the lookup threads

vars == <<routes, routers, middlewares, errorHandlers, serving, pc, c, w,
          stack, found, regs, calls, order, errCalls, lookups>>

Nil == 0

EmptyMap == [x \in {} |-> ""]

MapSet(m, k, v) == [x \in (DOMAIN m) \cup {k} |-> IF x = k THEN v ELSE m[x]]

MapDelete(m, k) == [x \in (DOMAIN m) \ {k} |-> m[x]]

CharAt(s, i) == SubSeq(s, i, i)

HasPrefix(s, p) == Len(s) >= Len(p) /\ SubSeq(s, 1, Len(p)) = p

(***************************************************************************)
(* parsePattern: the scan of the pattern for '/' (i and start are the     *)
(* 1-based forms of the loop's byte offsets).  The loop is left early     *)
(* after a part that begins with '*', with start still at that part.      *)
(***************************************************************************)
RECURSIVE ParseLoop(_, _, _, _)
ParseLoop(pattern, i, start, parts) ==
    IF i > Len(pattern) THEN [parts |-> parts, start |-> start]
    ELSE IF CharAt(pattern, i) = "/"
         THEN IF start < i
              THEN LET part == SubSeq(pattern, start, i - 1) IN
                   IF CharAt(part, 1) = "*"
                   THEN [parts |-> Append(parts, part), start |-> start]
                   ELSE ParseLoop(pattern, i + 1, i + 1, Append(parts, part))
              ELSE ParseLoop(pattern, i + 1, i + 1, parts)
         ELSE ParseLoop(pattern, i + 1, start, parts)

parsePattern(pattern) ==
    LET r == ParseLoop(pattern, 1, 1, <<>>) IN
    IF r.start <= Len(pattern)
    THEN Append(r.parts, SubSeq(pattern, r.start, Len(pattern)))
    ELSE r.parts

\* strings.Join(parts[from:], "/"), from 1-based
RECURSIVE JoinFrom(_, _)
JoinFrom(parts, from) ==
    IF from > Len(parts) THEN ""
    ELSE IF from = Len(parts) THEN parts[from]
    ELSE parts[from] \o "/" \o JoinFrom(parts, from + 1)

NewNodeStarOnly(part) ==
    [pattern |-> "", part |-> part, children |-> <<>>,
     isWild |-> (CharAt(part, 1) = "*"), handlers |-> <<>>]

NewNode(part) ==
    [pattern |-> "", part |-> part, children |-> <<>>,
     isWild |-> (CharAt(part, 1) = ":" \/ CharAt(part, 1) = "*"),
     handlers |-> <<>>]

RootNode ==
    [pattern |-> "", part |-> "", children |-> <<>>, isWild |-> FALSE,
     handlers |-> <<>>]

\* the condition of matchChild's loop, for one child
ChildMatches(child, part) == child.part = part \/ child.isWild

\* a matchChild that takes a child only for its equal part
matchChildExact(tree, n, part) ==
    LET kids == tree[n].children
        hits == {k \in 1..Len(kids) : tree[kids[k]].part = part}
    IN IF hits = {} THEN Nil
       ELSE kids[CHOOSE k \in hits : \A j \in hits : k <= j]

\* a matchChild that never finds a child
matchChildNone(tree, n, part) == Nil

\* routerNode.matchChild: the first child, in list order, that matches
matchChild(tree, n, part) ==
    LET kids == tree[n].children
        hits == {k \in 1..Len(kids) : ChildMatches(tree[kids[k]], part)}
    IN IF hits = {} THEN Nil
       ELSE kids[CHOOSE k \in hits : \A j \in hits : k <= j]

\* insertRoute's append of a new child to the children list
AddChildFirst(children, id) == <<id>> \o children

AddChild(children, id) == Append(children, id)

\* routerTree.insertRoute on the subtree rooted at n; height counts parts done
RECURSIVE insertRoute(_, _, _, _, _, _)
insertRoute(tree, n, pattern, parts, height, handlers) ==
    IF Len(parts) = height
    THEN [tree EXCEPT ![n].pattern = pattern, ![n].handlers = handlers]
    ELSE LET part  == parts[height + 1]
             child == matchChild(tree, n, part)
         IN IF child = Nil
            THEN LET id    == Len(tree) + 1
                     grown == Append([tree EXCEPT ![n].children = AddChild(@, id)],
                                     NewNode(part))
                 IN insertRoute(grown, id, pattern, parts, height + 1, handlers)
            ELSE insertRoute(tree, child, pattern, parts, height + 1, handlers)

(***************************************************************************)
(* routerTree.searchRoute on the subtree rooted at n.  The params map is  *)
(* passed in and handed back, since the code updates it in place.         *)
(* searchChildren is the loop over the children from list index k on.     *)
(***************************************************************************)
RECURSIVE searchRoute(_, _, _, _, _)
RECURSIVE searchChildren(_, _, _, _, _, _)
searchRoute(tree, n, parts, height, params) ==
    IF Len(parts) = height \/ HasPrefix(tree[n].part, "*")
    THEN IF tree[n].pattern = ""
         THEN [node |-> Nil, params |-> params]
         ELSE [node |-> n, params |-> params]
    ELSE searchChildren(tree, n, 1, parts, height, params)

searchChildren(tree, n, k, parts, height, params) ==
    IF k > Len(tree[n].children) THEN [node |-> Nil, params |-> params]
    ELSE LET id    == tree[n].children[k]
             child == tree[id]
             part  == parts[height + 1]
             name  == SubSeq(child.part, 2, Len(child.part))
         IN IF child.part = part \/ child.isWild
            THEN IF child.isWild /\ CharAt(child.part, 1) = "*"
                 THEN [node |-> id,
                       params |-> MapSet(params, name, JoinFrom(parts, height + 1))]
                 ELSE LET bound == IF child.isWild /\ CharAt(child.part, 1) = ":"
                                   THEN MapSet(params, name, part)
                                   ELSE params
                          result == searchRoute(tree, id, parts, height + 1, bound)
                      IN IF result.node # Nil THEN result
                         ELSE searchChildren(tree, n, k + 1, parts, height,
                                  IF child.isWild /\ CharAt(child.part, 1) = ":"
                                  THEN MapDelete(result.params, name)
                                  ELSE result.params)
            ELSE searchChildren(tree, n, k + 1, parts, height, params)

\* Router.addRoute on the forest rs
addRoute(rs, method, pattern, handlers) ==
    LET tree == IF method \in DOMAIN rs THEN rs[method] ELSE <<RootNode>>
        grown == insertRoute(tree, 1, pattern, parsePattern(pattern), 0, handlers)
    IN [m \in (DOMAIN rs) \cup {method} |-> IF m = method THEN grown ELSE rs[m]]

(***************************************************************************)
(* Router.getRoute.  The result carries the node pointer and, for a found *)
(* node, its pattern and handlers (what the callers read through it).     *)
(***************************************************************************)
NotFound == [node |-> Nil, pattern |-> "", handlers |-> <<>>, params |-> EmptyMap]

\* a getRoute that looks a lower-case "get" up in the tree of "GET"
getRouteFold(rs, method, path) ==
    LET key == IF method = "get" THEN "GET" ELSE method IN
    IF key \notin DOMAIN rs THEN NotFound
    ELSE LET r == searchRoute(rs[key], 1, parsePattern(path), 0, EmptyMap) IN
         IF r.node # Nil
         THEN [node |-> r.node,
               pattern |-> rs[key][r.node].pattern,
               handlers |-> rs[key][r.node].handlers,
               params |-> r.params]
         ELSE NotFound

getRoute(rs, method, path) ==
    IF method \notin DOMAIN rs THEN NotFound
    ELSE LET r == searchRoute(rs[method], 1, parsePattern(path), 0, EmptyMap) IN
         IF r.node # Nil
         THEN [node |-> r.node,
               pattern |-> rs[method][r.node].pattern,
               handlers |-> rs[method][r.node].handlers,
               params |-> r.params]
         ELSE NotFound

\* a getRoute that makes an empty tree for a method it has no tree for
ForestAfterLookupCreates(rs, method, path) ==
    [m \in (DOMAIN rs) \cup {method} |->
        IF m \in DOMAIN rs THEN rs[m] ELSE <<RootNode>>]

\* the forest after getRoute(method, path): getRoute reads the map of
\* trees and searchRoute reads the nodes; neither assigns to any of them
ForestAfterLookup(rs, method, path) == rs

\* what the variable found keeps of a getRoute call
Lookup(method, path, r) ==
    [method |-> method, path |-> path, node |-> r.node,
     pattern |-> r.pattern, handlers |-> r.handlers, params |-> r.params]

(***************************************************************************)
(* Handler bodies.  An operation of a handler body is one call on the     *)
(* Context (or one append to the list the tests keep of what ran).  err   *)
(* is the variadic argument list of Next: NoArgs for Next(), <<NoErr>>    *)
(* for Next(nil), <<e>> for Next(e).  NoErr is the nil error.             *)
(***************************************************************************)
NoErr == ""

NoArgs == <<>>

Op(op, code, text, err) == [op |-> op, code |-> code, text |-> text, err |-> err]

OpTag(text) == Op("Tag", 0, text, NoArgs)

OpNext == Op("Next", 0, "", NoArgs)

OpNextErr(e) == Op("Next", 0, "", <<e>>)

OpAbort == Op("Abort", 0, "", NoArgs)

OpStatus(code) == Op("Status", code, "", NoArgs)

OpString(code, text) == Op("String", code, text, NoArgs)

\* c.Set(key, v) with a value v of the request, and c.Get(key)
OpSet(key) == Op("Set", 0, key, NoArgs)

OpGet(key) == Op("Get", 0, key, NoArgs)

\* panic(v): v an error (err), a string (text) or an int (code)
OpPanicError(e) == Op("Panic", 0, "", <<e>>)

OpPanicString(text) == Op("Panic", 0, text, NoArgs)

OpPanicInt(n) == Op("Panic", n, "", NoArgs)

\* the closure Engine.ServeHTTP synthesizes when no route matches
NotFoundHandler == "notFound"

Code(h) ==
    CASE HasPrefix(h, "mw")
                         -> <<OpTag("before"), OpNext, OpTag("after")>>
      [] h = "handler"   -> <<OpTag("handler"), OpString(200, "ok")>>
      [] h = "abortMw"   -> <<OpAbort, OpString(401, "unauthorized")>>
      [] h = "denyMw"    -> <<OpString(403, "forbidden"), OpAbort>>
      [] h = "cors"      -> <<OpStatus(204)>>
      [] h = "errMw"     -> <<OpNextErr("test error")>>
      [] h = "abortNext" -> <<OpAbort, OpNext, OpTag("after")>>
      [] h = "twice"     -> <<OpTag("before"), OpNext, OpNext, OpTag("after")>>
      [] h = "errFirst"  -> <<OpTag("first error"), OpNextErr("first error")>>
      [] h = "errSecond" -> <<OpTag("second error"), OpNextErr("second error")>>
      [] h = "errAfter"  -> <<OpNext, OpTag("late error"), OpNextErr("late error")>>
      [] h = "nilMw"     -> <<OpTag("nil"), OpNextErr(NoErr)>>
      [] h = "session"   -> <<OpGet("user"), OpSet("user")>>
      [] h = "recover"   -> <<OpNext>>
      [] h = "panicStr"  -> <<OpTag("handler"), OpPanicString("test panic")>>
      [] h = "panicErr"  -> <<OpTag("handler"), OpPanicError("custom error")>>
      [] h = "panicInt"  -> <<OpTag("handler"), OpPanicInt(42)>>
      [] h = NotFoundHandler
                         -> <<OpStatus(404), OpString(404, "404 page not found")>>
      [] OTHER           -> <<OpTag("handler"), OpString(200, h)>>

OpJSON(code, obj) == Op("JSON", code, obj, NoArgs)

\* bodies of the error handlers (ErrorHandlerFunc): each writes a response,
\* eh2 with c.JSON
ErrCode(eh) == IF eh = "eh2" THEN <<OpJSON(500, eh)>> ELSE <<OpString(500, eh)>>

(***************************************************************************)
(* The response writer: the first WriteHeader fixes the status, a Write   *)
(* before any WriteHeader implies 200, bodies are appended.               *)
(***************************************************************************)
NewWriter == [code |-> 0, body |-> "", headers |-> 0]

\* headers counts the WriteHeader calls made on the writer
WriteHeader(rw, code) ==
    [rw EXCEPT !.code = IF @ = 0 THEN code ELSE @, !.headers = @ + 1]

Write(rw, text) ==
    [rw EXCEPT !.code = IF @ = 0 THEN 200 ELSE @, !.body = @ \o text]

(***************************************************************************)
(* Context.  index is the cursor; err = NoErr is the nil error.  The      *)
(* operators return the pair of the Context and the writer after the call.*)
(***************************************************************************)
\* the object contextPool's New function builds
PoolNew ==
    [params |-> EmptyMap, handlers |-> <<>>, index |-> -1, aborted |-> FALSE,
     err |-> NoErr, statusCodeWritten |-> FALSE, store |-> EmptyMap]

\* NewContext on the object taken from the pool
NewContext(pooled) ==
    [pooled EXCEPT !.index = -1, !.aborted = FALSE, !.err = NoErr,
                   !.statusCodeWritten = FALSE, !.params = EmptyMap,
                   !.store = EmptyMap]

\* a reset that leaves the store and the stored error as they are
resetKeepsStore(ctx) ==
    [params |-> EmptyMap, handlers |-> <<>>, index |-> -1, aborted |-> FALSE,
     err |-> ctx.err, statusCodeWritten |-> FALSE, store |-> ctx.store]

reset(ctx) ==
    [params |-> EmptyMap, handlers |-> <<>>, index |-> -1, aborted |-> FALSE,
     err |-> NoErr, statusCodeWritten |-> FALSE, store |-> EmptyMap]

\* Context.Set and Context.Get
Set(ctx, key, value) == [ctx EXCEPT !.store = MapSet(@, key, value)]

Get(ctx, key) == IF key \in DOMAIN ctx.store THEN ctx.store[key] ELSE ""

\* a Status that calls WriteHeader whatever statusCodeWritten says
StatusAlways(ctx, rw, code) ==
    [c |-> [ctx EXCEPT !.statusCodeWritten = TRUE], w |-> WriteHeader(rw, code)]

Status(ctx, rw, code) ==
    IF ~ctx.statusCodeWritten
    THEN [c |-> [ctx EXCEPT !.statusCodeWritten = TRUE], w |-> WriteHeader(rw, code)]
    ELSE [c |-> ctx, w |-> rw]

String(ctx, rw, code, text) ==
    LET s == Status(ctx, rw, code) IN [c |-> s.c, w |-> Write(s.w, text)]

\* json.Encoder.Encode of a string value: quoted, with a newline after it
Encode(obj) == "\"" \o obj \o "\"\n"

JSON(ctx, rw, code, obj) ==
    LET s == Status(ctx, rw, code) IN [c |-> s.c, w |-> Write(s.w, Encode(obj))]

AbortForgotten(ctx) == ctx

Abort(ctx) == [ctx EXCEPT !.aborted = TRUE]

\* Recover's conversion of the recovered value r = recover(): an error is
\* kept, any other value becomes fmt.Errorf("%v", r)
PanicError(op) ==
    IF op.err # NoArgs THEN op.err[1]
    ELSE IF op.text # "" THEN op.text
    ELSE ToString(op.code)

\* Next's test of its argument list: an error is given and is not nil
ErrGiven(err) == Len(err) > 0 /\ err[1] # NoErr

\* a Next that sets the abort flag when it is given an error
NextEnterAbortOnErr(ctx, err) ==
    [ctx EXCEPT !.err = IF ErrGiven(err) THEN err[1] ELSE @, !.index = @ + 1,
                !.aborted = IF ErrGiven(err) THEN TRUE ELSE @]

\* a Next that keeps the first error stored
NextEnterFirstWins(ctx, err) ==
    [ctx EXCEPT !.err = IF ErrGiven(err) /\ @ = NoErr THEN err[1] ELSE @,
                !.index = @ + 1]

\* a Next that starts again at the head of the chain
NextEnterRestart(ctx, err) ==
    [ctx EXCEPT !.err = IF ErrGiven(err) THEN err[1] ELSE @, !.index = 0]

\* a Next that advances the cursor twice
NextEnterSkip(ctx, err) ==
    [ctx EXCEPT !.err = IF ErrGiven(err) THEN err[1] ELSE @, !.index = @ + 2]

\* Context.Next up to its loop: store the error, advance the cursor
NextEnter(ctx, err) ==
    [ctx EXCEPT !.err = IF ErrGiven(err) THEN err[1] ELSE @, !.index = @ + 1]

\* the handler call of Next's loop has returned: advance the cursor
NextAdvance(ctx) == [ctx EXCEPT !.index = @ + 1]

\* a recovery that does not call c.Abort()
RecoveredNoAbort(ctx, op) == NextEnter(ctx, <<PanicError(op)>>)

\* Recover's deferred function on a panic, up to the loop of its c.Next(err)
Recovered(ctx, op) == NextEnter(Abort(ctx), <<PanicError(op)>>)

NextFrame == [k |-> "Next", pos |-> -1, h |-> "", at |-> 0]

HandlerFrame(pos, h) == [k |-> "handler", pos |-> pos, h |-> h, at |-> 1]

Top == stack[Len(stack)]

Pop(s) == SubSeq(s, 1, Len(s) - 1)

(***************************************************************************)
(* Registration: Engine.Use, Engine.UseError, Router.Use, Router.Group,   *)
(* Router.Handle (Engine.GET and the like call Handle on routers[1],      *)
(* Engine.Route calls Group on it).  Registration precedes serving.       *)
(***************************************************************************)
NewRouter == [prefix |-> "", middlewares |-> <<>>]

Registering == pc = "idle" /\ ~serving

EngineUse(h) ==
    /\ Registering
    /\ middlewares' = Append(middlewares, h)
    /\ UNCHANGED <<routes, routers, errorHandlers, serving, pc, c, w, stack,
                   found, regs, calls, order, errCalls, lookups>>

UseError(eh) ==
    /\ Registering
    /\ errorHandlers' = Append(errorHandlers, eh)
    /\ UNCHANGED <<routes, routers, middlewares, serving, pc, c, w, stack,
                   found, regs, calls, order, errCalls, lookups>>

\* a Use that also reaches the routers grouped from r
RouterUseShared(r, h) ==
    /\ Registering
    /\ r \in DOMAIN routers
    /\ routers' = [q \in DOMAIN routers |->
                      IF q >= r /\ HasPrefix(routers[q].prefix, routers[r].prefix)
                      THEN [routers[q] EXCEPT !.middlewares = Append(@, h)]
                      ELSE routers[q]]
    /\ UNCHANGED <<routes, middlewares, errorHandlers, serving, pc, c, w,
                   stack, found, regs, calls, order, errCalls, lookups>>

\* a Use that also reaches the routes already registered under r's prefix
RouterUseReaches(r, h) ==
    /\ Registering
    /\ r \in DOMAIN routers
    /\ routers' = [routers EXCEPT ![r].middlewares = Append(@, h)]
    /\ routes' = [m \in DOMAIN routes |->
                     [n \in DOMAIN routes[m] |->
                         IF /\ routes[m][n].pattern # ""
                            /\ HasPrefix(routes[m][n].pattern, routers[r].prefix)
                         THEN [routes[m][n] EXCEPT !.handlers = <<h>> \o @]
                         ELSE routes[m][n]]]
    /\ UNCHANGED <<middlewares, errorHandlers, serving, pc, c, w,
                   stack, found, regs, calls, order, errCalls, lookups>>

RouterUse(r, h) ==
    /\ Registering
    /\ r \in DOMAIN routers
    /\ routers' = [routers EXCEPT ![r].middlewares = Append(@, h)]
    /\ UNCHANGED <<routes, middlewares, errorHandlers, serving, pc, c, w,
                   stack, found, regs, calls, order, errCalls, lookups>>

\* a Group whose child starts without the parent's middleware
GroupNoCopy(r, prefix) ==
    /\ Registering
    /\ r \in DOMAIN routers
    /\ routers' = Append(routers,
                         [prefix |-> routers[r].prefix \o prefix,
                          middlewares |-> <<>>])
    /\ UNCHANGED <<routes, middlewares, errorHandlers, serving, pc, c, w,
                   stack, found, regs, calls, order, errCalls, lookups>>

Group(r, prefix) ==
    /\ Registering
    /\ r \in DOMAIN routers
    /\ routers' = Append(routers,
                         [prefix |-> routers[r].prefix \o prefix,
                          middlewares |-> routers[r].middlewares])
    /\ UNCHANGED <<routes, middlewares, errorHandlers, serving, pc, c, w,
                   stack, found, regs, calls, order, errCalls, lookups>>

\* a Handle that registers the pattern without the router's prefix
FullPatternBare(prefix, pattern) == pattern

FullPattern(prefix, pattern) ==
    IF prefix # "" /\ pattern = "/" THEN prefix ELSE prefix \o pattern

\* Handle's chain: the router's middleware, then the route's handlers
FinalHandlersFirst(mws, handlers) == handlers \o mws

FinalHandlers(mws, handlers) == mws \o handlers

Handle(r, method, pattern, handlers) ==
    /\ Registering
    /\ r \in DOMAIN routers
    /\ LET fullPattern   == FullPattern(routers[r].prefix, pattern)
           finalHandlers == FinalHandlers(routers[r].middlewares, handlers)
       IN /\ routes' = addRoute(routes, method, fullPattern, finalHandlers)
          /\ regs' = Append(regs, [method |-> method, pattern |-> fullPattern,
                                   handlers |-> finalHandlers])
    /\ UNCHANGED <<routers, middlewares, errorHandlers, serving, pc, c, w,
                   stack, found, calls, order, errCalls, lookups>>

\* a direct call of Router.getRoute (as the router's tests make it)
GetRoute(method, path) ==
    /\ pc = "idle"
    /\ found' = Lookup(method, path, getRoute(routes, method, path))
    /\ routes' = ForestAfterLookup(routes, method, path)
    /\ serving' = TRUE
    /\ UNCHANGED <<routers, middlewares, errorHandlers, pc, c, w, stack, regs,
                   calls, order, errCalls, lookups>>

\* a chain without the engine's middleware
AssembleRouteOnly(mws, r) ==
    IF r.node # Nil THEN r.handlers ELSE <<NotFoundHandler>>

\* a chain that drops the engine's middleware when no route matched
AssembleFallbackOnly(mws, r) ==
    IF r.node # Nil THEN mws \o r.handlers ELSE <<NotFoundHandler>>

\* ServeHTTP's handler list: the engine's middleware, then the handlers of
\* the node found or, without a node, the 404 closure
AssembleHandlers(mws, r) ==
    mws \o (IF r.node # Nil THEN r.handlers ELSE <<NotFoundHandler>>)

(***************************************************************************)
(* Engine.ServeHTTP up to and including the entry of its c.Next() call.   *)
(***************************************************************************)
ServeHTTP(method, path) ==
    /\ pc = "idle"
    /\ LET r        == getRoute(routes, method, path)
           handlers == AssembleHandlers(middlewares, r)
           ctx      == [NewContext(c) EXCEPT
                            !.params = IF r.node # Nil THEN r.params ELSE @,
                            !.handlers = handlers]
       IN /\ found' = Lookup(method, path, r)
          /\ c' = NextEnter(ctx, NoArgs)
    /\ stack' = <<NextFrame>>
    /\ w' = NewWriter
    /\ pc' = "chain"
    /\ serving' = TRUE
    /\ calls' = <<>>
    /\ order' = <<>>
    /\ errCalls' = <<>>
    /\ routes' = ForestAfterLookup(routes, method, path)
    /\ UNCHANGED <<routers, middlewares, errorHandlers, regs, lookups>>

InChain == pc = "chain" /\ stack # <<>>

\* a loop that calls the handler without looking at the flag
NextInvokeUnchecked ==
    /\ InChain /\ Top.k = "Next"
    /\ c.index < Len(c.handlers)
    /\ stack' = Append(stack, HandlerFrame(c.index, c.handlers[c.index + 1]))
    /\ calls' = Append(calls, c.index)
    /\ UNCHANGED <<routes, routers, middlewares, errorHandlers, serving, pc,
                   c, w, found, regs, order, errCalls, lookups>>

\* Next's loop: the cursor is in range and the flag is unset: call the handler
NextInvoke ==
    /\ InChain /\ Top.k = "Next"
    /\ c.index < Len(c.handlers)
    /\ ~c.aborted
    /\ stack' = Append(stack, HandlerFrame(c.index, c.handlers[c.index + 1]))
    /\ calls' = Append(calls, c.index)
    /\ UNCHANGED <<routes, routers, middlewares, errorHandlers, serving, pc,
                   c, w, found, regs, order, errCalls, lookups>>

\* a loop that goes round again on a set flag instead of returning
NextAbortedSpins ==
    /\ InChain /\ Top.k = "Next"
    /\ c.index < Len(c.handlers)
    /\ c.aborted
    /\ UNCHANGED vars

\* Next's loop: the flag is set: return
NextAborted ==
    /\ InChain /\ Top.k = "Next"
    /\ c.index < Len(c.handlers)
    /\ c.aborted
    /\ stack' = Pop(stack)
    /\ UNCHANGED <<routes, routers, middlewares, errorHandlers, serving, pc,
                   c, w, found, regs, calls, order, errCalls, lookups>>

\* Next's loop: the cursor is past the end: return
NextExhausted ==
    /\ InChain /\ Top.k = "Next"
    /\ ~(c.index < Len(c.handlers))
    /\ stack' = Pop(stack)
    /\ UNCHANGED <<routes, routers, middlewares, errorHandlers, serving, pc,
                   c, w, found, regs, calls, order, errCalls, lookups>>

InHandler == InChain /\ Top.k = "handler" /\ Top.at <= Len(Code(Top.h))

CurOp == Code(Top.h)[Top.at]

Step(s) == [s EXCEPT ![Len(s)].at = @ + 1]

\* the running handler records a tag
HandlerTag ==
    /\ InHandler /\ CurOp.op = "Tag"
    /\ order' = Append(order, [pos |-> Top.pos, tag |-> CurOp.text])
    /\ stack' = Step(stack)
    /\ UNCHANGED <<routes, routers, middlewares, errorHandlers, serving, pc,
                   c, w, found, regs, calls, errCalls, lookups>>

\* the running handler calls c.Next(err...)
HandlerNext ==
    /\ InHandler /\ CurOp.op = "Next"
    /\ c' = NextEnter(c, CurOp.err)
    /\ stack' = Append(Step(stack), NextFrame)
    /\ UNCHANGED <<routes, routers, middlewares, errorHandlers, serving, pc,
                   w, found, regs, calls, order, errCalls, lookups>>

\* an Abort() that unwinds the chain: nothing of the request runs after it
HandlerAbortUnwinds ==
    /\ InHandler /\ CurOp.op = "Abort"
    /\ c' = Abort(c)
    /\ stack' = <<>>
    /\ UNCHANGED <<routes, routers, middlewares, errorHandlers, serving, pc,
                   w, found, regs, calls, order, errCalls, lookups>>

\* the running handler calls c.Abort()
HandlerAbort ==
    /\ InHandler /\ CurOp.op = "Abort"
    /\ c' = Abort(c)
    /\ stack' = Step(stack)
    /\ UNCHANGED <<routes, routers, middlewares, errorHandlers, serving, pc,
                   w, found, regs, calls, order, errCalls, lookups>>

\* the running handler calls c.Status(code) or c.String(code, text)
HandlerWrite ==
    /\ InHandler /\ CurOp.op \in {"Status", "String"}
    /\ LET r == IF CurOp.op = "Status" THEN Status(c, w, CurOp.code)
                ELSE String(c, w, CurOp.code, CurOp.text)
       IN c' = r.c /\ w' = r.w
    /\ stack' = Step(stack)
    /\ UNCHANGED <<routes, routers, middlewares, errorHandlers, serving, pc,
                   found, regs, calls, order, errCalls, lookups>>

\* the running handler calls c.Set(key, v), v the path of its request
HandlerSet ==
    /\ InHandler /\ CurOp.op = "Set"
    /\ c' = Set(c, CurOp.text, found.path)
    /\ stack' = Step(stack)
    /\ UNCHANGED <<routes, routers, middlewares, errorHandlers, serving, pc,
                   w, found, regs, calls, order, errCalls, lookups>>

\* the running handler calls c.Get(key) and records what it got
HandlerGet ==
    /\ InHandler /\ CurOp.op = "Get"
    /\ order' = Append(order, [pos |-> Top.pos, tag |-> Get(c, CurOp.text)])
    /\ stack' = Step(stack)
    /\ UNCHANGED <<routes, routers, middlewares, errorHandlers, serving, pc,
                   c, w, found, regs, calls, errCalls, lookups>>

\* the innermost activation of the Recover middleware on the stack, or 0
RecoverAt ==
    LET js == {j \in 1..Len(stack) :
                  stack[j].k = "handler" /\ stack[j].h = "recover"}
    IN IF js = {} THEN 0 ELSE CHOOSE j \in js : \A i \in js : i <= j

\* the running handler panics.  The stack unwinds to the innermost Recover,
\* whose deferred function recovers and calls c.Abort() and c.Next(err);
\* without a Recover the panic leaves ServeHTTP, whose deferred function
\* resets the Context on the way.
HandlerPanic ==
    /\ InHandler /\ CurOp.op = "Panic"
    /\ order' = Append(order, [pos |-> Top.pos, tag |-> "panic"])
    /\ IF RecoverAt # 0
       THEN /\ c' = Recovered(c, CurOp)
            /\ stack' = Append(SubSeq(stack, 1, RecoverAt), NextFrame)
            /\ pc' = pc
       ELSE /\ c' = reset(c)
            /\ stack' = <<>>
            /\ pc' = "crashed"
    /\ UNCHANGED <<routes, routers, middlewares, errorHandlers, serving, w,
                   found, regs, calls, errCalls, lookups>>

\* the running handler returns into Next's loop, which advances the cursor
HandlerReturn ==
    /\ InChain /\ Top.k = "handler" /\ Top.at > Len(Code(Top.h))
    /\ c' = NextAdvance(c)
    /\ stack' = Pop(stack)
    /\ UNCHANGED <<routes, routers, middlewares, errorHandlers, serving, pc,
                   w, found, regs, calls, order, errCalls, lookups>>

\* ServeHTTP's c.Next() has returned
ChainReturn ==
    /\ pc = "chain" /\ stack = <<>>
    /\ pc' = "errors"
    /\ UNCHANGED <<routes, routers, middlewares, errorHandlers, serving, c, w,
                   stack, found, regs, calls, order, errCalls, lookups>>

\* the error handlers run whether or not an error was recorded
ErrorsDueAlways == Len(errorHandlers) > 0

ErrorsDueUnlessAborted == c.err # NoErr /\ Len(errorHandlers) > 0 /\ ~c.aborted

ErrorsDue == c.err # NoErr /\ Len(errorHandlers) > 0

RECURSIVE RunOps(_, _, _)
RunOps(ops, ctx, rw) ==
    IF ops = <<>> THEN [c |-> ctx, w |-> rw]
    ELSE LET r == IF Head(ops).op = "JSON"
                  THEN JSON(ctx, rw, Head(ops).code, Head(ops).text)
                  ELSE String(ctx, rw, Head(ops).code, Head(ops).text)
         IN RunOps(Tail(ops), r.c, r.w)

\* error handlers that may also run while the chain is still running
ErrorHandlerEager ==
    /\ pc \in {"chain", "errors"} /\ ErrorsDue
    /\ Len(errCalls) < Len(errorHandlers)
    /\ LET eh == errorHandlers[Len(errCalls) + 1]
           r  == RunOps(ErrCode(eh), c, w)
       IN /\ errCalls' = Append(errCalls, [h |-> eh, err |-> c.err])
          /\ c' = r.c
          /\ w' = r.w
    /\ UNCHANGED <<routes, routers, middlewares, errorHandlers, serving, pc,
                   stack, found, regs, calls, order, lookups>>

\* ServeHTTP's loop over e.errorHandlers: one iteration
ErrorHandler ==
    /\ pc = "errors" /\ ErrorsDue
    /\ Len(errCalls) < Len(errorHandlers)
    /\ LET eh == errorHandlers[Len(errCalls) + 1]
           r  == RunOps(ErrCode(eh), c, w)
       IN /\ errCalls' = Append(errCalls, [h |-> eh, err |-> c.err])
          /\ c' = r.c
          /\ w' = r.w
    /\ UNCHANGED <<routes, routers, middlewares, errorHandlers, serving, pc,
                   stack, found, regs, calls, order, lookups>>

\* ServeHTTP's deferred function: c.reset() and contextPool.Put(c)
Release ==
    /\ pc = "errors"
    /\ ~ErrorsDue \/ Len(errCalls) = Len(errorHandlers)
    /\ c' = reset(c)
    /\ pc' = "idle"
    /\ UNCHANGED <<routes, routers, middlewares, errorHandlers, serving, w,
                   stack, found, regs, calls, order, errCalls, lookups>>

Init ==
    /\ routes = [m \in {} |-> <<>>]
    /\ routers = <<NewRouter>>
    /\ middlewares = <<>>
    /\ errorHandlers = <<>>
    /\ serving = FALSE
    /\ pc = "idle"
    /\ c = PoolNew
    /\ w = NewWriter
    /\ stack = <<>>
    /\ found = Lookup("", "", NotFound)
    /\ regs = <<>>
    /\ calls = <<>>
    /\ order = <<>>
    /\ errCalls = <<>>
    /\ lookups = <<>>

\* the handler function registered with the k-th route
RouteHandler(k) == "h" \o ToString(k)

\* the handler list ServeHTTP assembled for the request last served
Chain ==
    middlewares \o (IF found.node # Nil THEN found.handlers ELSE <<NotFoundHandler>>)

(***************************************************************************)
(* SpecChain: an engine with global middleware drawn from ChainMws, error *)
(* handlers, and the route GET /test, serving GET /test and GET /nope.    *)
(***************************************************************************)
MaxGlobal == 2

ChainMws == {"mw", "abortMw", "denyMw", "cors", "errMw", "abortNext", "twice"}

ErrorHandlerNames == {"eh1", "eh2"}

Range(seq) == {seq[k] : k \in 1..Len(seq)}

UseGlobal ==
    \E h \in ChainMws : Len(middlewares) < MaxGlobal /\ EngineUse(h)

UseErrorHandler ==
    \E eh \in ErrorHandlerNames \ Range(errorHandlers) : UseError(eh)

RegisterTest == regs = <<>> /\ Handle(1, "GET", "/test", <<"handler">>)

Serve == \E path \in {"/test", "/nope"} : ServeHTTP("GET", path)

NextChain ==
    \/ UseGlobal
    \/ UseErrorHandler
    \/ RegisterTest
    \/ Serve
    \/ NextInvoke
    \/ NextAborted
    \/ NextExhausted
    \/ HandlerTag
    \/ HandlerNext
    \/ HandlerAbort
    \/ HandlerWrite
    \/ HandlerReturn
    \/ ChainReturn
    \/ ErrorHandler
    \/ Release

SpecChain == Init /\ [][NextChain]_vars

\* a step of the goroutine that serves the request: ServeHTTP and all it
\* calls run on it, and the scheduler keeps running it while it can step
RequestStep ==
    \/ NextInvoke
    \/ NextAborted
    \/ NextExhausted
    \/ HandlerTag
    \/ HandlerNext
    \/ HandlerAbort
    \/ HandlerWrite
    \/ HandlerReturn
    \/ ChainReturn
    \/ ErrorHandler
    \/ Release

FairChain == SpecChain /\ WF_vars(RequestStep)

(***************************************************************************)
(* SpecErrors: an engine whose middleware, drawn from ErrMws, call Next   *)
(* with and without an error, before and after the rest of the chain has  *)
(* run; each records the error it is about to give.  GET /test is served. *)
(***************************************************************************)
MaxErrMws == 3

ErrMws == {"errFirst", "errSecond", "errAfter", "nilMw", "mw"}

UseErrMw == \E h \in ErrMws : Len(middlewares) < MaxErrMws /\ EngineUse(h)

ServeTest == ServeHTTP("GET", "/test")

NextErrors ==
    \/ UseErrMw
    \/ UseErrorHandler
    \/ RegisterTest
    \/ ServeTest
    \/ NextInvoke
    \/ NextExhausted
    \/ HandlerTag
    \/ HandlerNext
    \/ HandlerWrite
    \/ HandlerReturn
    \/ ChainReturn
    \/ ErrorHandler
    \/ Release

SpecErrors == Init /\ [][NextErrors]_vars

(***************************************************************************)
(* SpecPool: requests served one after the other on the Context the pool  *)
(* hands out again.  The session middleware reads the store and then      *)
(* writes it; chains end normally, are aborted, or record an error.  The  *)
(* path /users/2 is requested only after another request has been served. *)
(***************************************************************************)
MaxPoolMws == 2

PoolMws == {"session", "abortMw", "errMw"}

UsePoolMw == \E h \in PoolMws : Len(middlewares) < MaxPoolMws /\ EngineUse(h)

RegisterUser == regs = <<>> /\ Handle(1, "GET", "/users/:id", <<"handler">>)

ServePool ==
    \E path \in {"/users/1", "/users/2", "/nope"} :
        /\ path = "/users/2" => serving
        /\ ServeHTTP("GET", path)

NextPool ==
    \/ UsePoolMw
    \/ UseErrorHandler
    \/ RegisterUser
    \/ ServePool
    \/ NextInvoke
    \/ NextAborted
    \/ NextExhausted
    \/ HandlerTag
    \/ HandlerNext
    \/ HandlerAbort
    \/ HandlerWrite
    \/ HandlerSet
    \/ HandlerGet
    \/ HandlerReturn
    \/ ChainReturn
    \/ ErrorHandler
    \/ Release

SpecPool == Init /\ [][NextPool]_vars

(***************************************************************************)
(* SpecRecover: an engine whose global middleware is drawn from Recover   *)
(* and mw, with error handlers and the route GET /panic, whose first      *)
(* handler panics with a string, an error or an int and is followed by a  *)
(* second handler.                                                        *)
(***************************************************************************)
MaxRecoverMws == 2

Panickers == {"panicStr", "panicErr", "panicInt"}

UseRecoverMw ==
    \E h \in {"recover", "mw"} :
        Len(middlewares) < MaxRecoverMws /\ EngineUse(h)

RegisterPanic ==
    \E h \in Panickers :
        regs = <<>> /\ Handle(1, "GET", "/panic", <<h, "handler">>)

ServePanic == ServeHTTP("GET", "/panic")

NextRecover ==
    \/ UseRecoverMw
    \/ UseErrorHandler
    \/ RegisterPanic
    \/ ServePanic
    \/ NextInvoke
    \/ NextAborted
    \/ NextExhausted
    \/ HandlerTag
    \/ HandlerNext
    \/ HandlerPanic
    \/ HandlerWrite
    \/ HandlerReturn
    \/ ChainReturn
    \/ ErrorHandler
    \/ Release

SpecRecover == Init /\ [][NextRecover]_vars

(***************************************************************************)
(* SpecEngine: global middleware, the groups /api and /api/v1 with their  *)
(* own middleware, and one route per router, registered in any order and  *)
(* then served.  Each route brings a middleware and a handler of its own. *)
(***************************************************************************)
GroupMws == {"mwA", "logB"}

EnginePaths == {"/x", "/api/x", "/api/v1/x"}

UseG == "mwG" \notin Range(middlewares) /\ EngineUse("mwG")

UseOnRouter ==
    \E r \in DOMAIN routers, h \in GroupMws :
        /\ \A q \in DOMAIN routers : h \notin Range(routers[q].middlewares)
        /\ RouterUse(r, h)

Route == Len(routers) = 1 /\ Group(1, "/api")

SubGroup == Len(routers) = 2 /\ Group(2, "/v1")

RegisterX ==
    \E r \in DOMAIN routers :
        /\ \A k \in 1..Len(regs) :
              regs[k].pattern # FullPattern(routers[r].prefix, "/x")
        /\ Handle(r, "GET", "/x", <<"mwR", RouteHandler(r)>>)

ServeX == \E path \in EnginePaths : ServeHTTP("GET", path)

NextEngine ==
    \/ UseG
    \/ UseOnRouter
    \/ Route
    \/ SubGroup
    \/ RegisterX
    \/ ServeX
    \/ NextInvoke
    \/ NextExhausted
    \/ HandlerTag
    \/ HandlerNext
    \/ HandlerWrite
    \/ HandlerReturn
    \/ ChainReturn
    \/ Release

SpecEngine == Init /\ [][NextEngine]_vars

(***************************************************************************)
(* SpecGroups: the engine's group /api (routers[2]) is given mwA, then    *)
(* its subgroups /api/v1 (routers[3]) and /api/v2 (routers[4]) are        *)
(* created from it.  Afterwards, in any order: /api/v1 is given mwB, /api *)
(* is given mwLate, the engine is given mwG (once a route is declared),   *)
(* and each group registers one route (/api after it was given mwA,      *)
(* /api/v1 after it was given mwB).                                       *)
(***************************************************************************)
Api == 2

V1 == 3

V2 == 4

GroupPaths == {"/", "/x", "/v1/x", "/api/x", "/api/v1/x", "/api/v2"}

\* the pattern each group registers: "/x", and "/" on /api/v2
GroupPattern(r) == IF r = V2 THEN "/" ELSE "/x"

Used(r, h) == r \in DOMAIN routers /\ h \in Range(routers[r].middlewares)

RouteApi == Len(routers) = 1 /\ Group(1, "/api")

UseA == Len(routers) = Api /\ ~Used(Api, "mwA") /\ RouterUse(Api, "mwA")

GroupV1 == Len(routers) = Api /\ Used(Api, "mwA") /\ Group(Api, "/v1")

GroupV2 == Len(routers) = V1 /\ Group(Api, "/v2")

UseB == ~Used(V1, "mwB") /\ RouterUse(V1, "mwB")

UseLate == V1 \in DOMAIN routers /\ ~Used(Api, "mwLate") /\ RouterUse(Api, "mwLate")

UseGLate == regs # <<>> /\ middlewares = <<>> /\ EngineUse("mwG")

RegisterGroup ==
    \E r \in (DOMAIN routers) \ {1} :
        /\ r = Api => Used(Api, "mwA")
        /\ r = V1 => Used(V1, "mwB")
        /\ \A k \in 1..Len(regs) :
              regs[k].pattern # FullPattern(routers[r].prefix, GroupPattern(r))
        /\ Handle(r, "GET", GroupPattern(r), <<RouteHandler(r)>>)

ServeGroup == \E path \in GroupPaths : ServeHTTP("GET", path)

NextGroups ==
    \/ RouteApi
    \/ UseA
    \/ GroupV1
    \/ GroupV2
    \/ UseB
    \/ UseLate
    \/ UseGLate
    \/ RegisterGroup
    \/ ServeGroup
    \/ NextInvoke
    \/ NextExhausted
    \/ HandlerTag
    \/ HandlerNext
    \/ HandlerWrite
    \/ HandlerReturn
    \/ ChainReturn
    \/ Release

SpecGroups == Init /\ [][NextGroups]_vars

(***************************************************************************)
(* SpecRouter: routes are registered on the root router and looked up,    *)
(* as the router's tests do.  The k-th registration brings its own        *)
(* handler function.                                                       *)
(***************************************************************************)
MaxRoutes == 2

Methods == {"GET", "POST"}

RouterPatterns ==
    {"/", "/users", "/users/new", "/users/:id", "/users/:id/posts",
     "/files/*rest", "/files/a", "/files/*rest/", ""}

RouterPaths ==
    {"/", "/users", "/users/new", "/users/123", "/users/42", "/users/42/extra",
     "/users/42/posts", "/files/a", "/files/a/b/c"}

Register ==
    \E m \in Methods, p \in RouterPatterns :
        /\ Len(regs) < MaxRoutes
        /\ Handle(1, m, p, <<RouteHandler(Len(regs) + 1)>>)

\* the methods looked up: those registered under, the lower-case form of
\* one of them, and one that no route is registered under
SearchMethods == Methods \cup {"get", "DELETE"}

\* one lookup on the forest built so far (a lookup changes nothing but
\* found, so a second lookup reaches no state the first does not)
Search ==
    \E m \in SearchMethods, p \in RouterPaths : ~serving /\ GetRoute(m, p)

NextRouter == Register \/ Search

SpecRouter == Init /\ [][NextRouter]_vars

(***************************************************************************)
(* Properties of the route forest, checked under SpecRouter.              *)
(***************************************************************************)
\* the patterns registered under method m, in registration order
RECURSIVE PatternSeq(_, _)
PatternSeq(rs, m) ==
    IF rs = <<>> THEN <<>>
    ELSE IF Head(rs).method = m
         THEN <<Head(rs).pattern>> \o PatternSeq(Tail(rs), m)
         ELSE PatternSeq(Tail(rs), m)

\* the handler list of the latest registration of (m, p)
HandlersOf(m, p) ==
    LET ks == {k \in 1..Len(regs) : regs[k].method = m /\ regs[k].pattern = p}
    IN regs[CHOOSE k \in ks : \A j \in ks : j <= k].handlers

Searched(m, path) == serving /\ found.method = m /\ found.path = path

StaticFirst == <<"/users/new", "/users/:id">>

DynamicFirst == <<"/users/:id", "/users/new">>

BothUsersRoutes(m) == PatternSeq(regs, m) \in {StaticFirst, DynamicFirst}

\* C6: with "/users/new" and "/users/:id" registered under one method, in
\* either order, a lookup of "/users/new" yields the handlers registered for
\* the literal pattern.
C6_StaticOverDynamic ==
    \A m \in Methods :
        BothUsersRoutes(m) /\ Searched(m, "/users/new")
            => /\ found.node # Nil
               /\ found.handlers = HandlersOf(m, "/users/new")

C6_Witness ==
    \E m \in Methods :
        /\ PatternSeq(regs, m) = DynamicFirst
        /\ Searched(m, "/users/new")
        /\ found.handlers = HandlersOf(m, "/users/new")

\* the forest a sequence of registrations builds
RECURSIVE Build(_, _)
Build(rs, acc) ==
    IF rs = <<>> THEN acc
    ELSE Build(Tail(rs),
               addRoute(acc, Head(rs).method, Head(rs).pattern, Head(rs).handlers))

EmptyForest == [m \in {} |-> <<>>]

Reorderings(n) ==
    {f \in [1..n -> 1..n] : \A i, j \in 1..n : f[i] = f[j] => i = j}

Distinct(seq) == \A i, j \in 1..Len(seq) : seq[i] = seq[j] => i = j

\* what a lookup resolves to: the pattern, its handlers, the bound params
Resolution(rs, m, path) ==
    LET r == getRoute(rs, m, path) IN <<r.pattern, r.handlers, r.params>>

\* C7: for distinct patterns registered under one method, every lookup
\* resolves the same whatever the order of the registrations was.
C7_OrderIndependent ==
    (\A m \in Methods : Distinct(PatternSeq(regs, m)))
        => \A f \in Reorderings(Len(regs)) :
              \A m \in Methods, path \in RouterPaths :
                  Resolution(Build([k \in 1..Len(regs) |-> regs[f[k]]], EmptyForest),
                             m, path)
                      = Resolution(routes, m, path)

\* C8: with both routes registered, in either order, a lookup of
\* "/users/123" (a segment other than "new") yields the handlers registered
\* for "/users/:id" and params exactly {id: "123"}.
C8_ParamRouteKept ==
    \A m \in Methods :
        BothUsersRoutes(m) /\ Searched(m, "/users/123")
            => /\ found.node # Nil
               /\ found.pattern = "/users/:id"
               /\ found.handlers = HandlersOf(m, "/users/:id")
               /\ found.params = [x \in {"id"} |-> "123"]

IsLiteral(pattern) ==
    \A k \in 1..Len(parsePattern(pattern)) :
        CharAt(parsePattern(pattern)[k], 1) \notin {":", "*"}

\* C9: a lookup of the path identical to the literal pattern registered
\* last returns a node holding that pattern and its handlers, with no
\* params, whatever was registered before it.
C9_LiteralRoundTrip ==
    (regs # <<>> /\ IsLiteral(regs[Len(regs)].pattern)
                 /\ Searched(regs[Len(regs)].method, regs[Len(regs)].pattern))
        => /\ found.node # Nil
           /\ found.pattern = regs[Len(regs)].pattern
           /\ found.handlers = regs[Len(regs)].handlers
           /\ found.params = EmptyMap

OnlyUserRoute(m) == PatternSeq(regs, m) = <<"/users/:id">>

\* C10: with only "/users/:id" registered, "/users/42" resolves to it with
\* params exactly {id: "42"}; "/users" and "/users/42/extra" are not found.
C10_ParamBindsOneSegment ==
    \A m \in Methods :
        OnlyUserRoute(m) =>
            /\ Searched(m, "/users/42")
                   => /\ found.pattern = "/users/:id"
                      /\ found.handlers = HandlersOf(m, "/users/:id")
                      /\ found.params = [x \in {"id"} |-> "42"]
            /\ Searched(m, "/users") => found.node = Nil
            /\ Searched(m, "/users/42/extra") => found.node = Nil

C10_Witness ==
    \E m \in Methods :
        /\ OnlyUserRoute(m)
        /\ Searched(m, "/users/42")
        /\ found.params = [x \in {"id"} |-> "42"]

WildcardRoute == "/files/*rest"

\* C11: with "/files/*rest" registered under a method, a lookup of
\* "/files/a/b/c" resolves to that route (its pattern and the handlers
\* registered for it) with params exactly {rest: "a/b/c"}.
C11_WildcardCapturesRest ==
    \A m \in Methods :
        (WildcardRoute \in Range(PatternSeq(regs, m)) /\ Searched(m, "/files/a/b/c"))
            => /\ found.node # Nil
               /\ found.pattern = WildcardRoute
               /\ found.handlers = HandlersOf(m, WildcardRoute)
               /\ found.params = [x \in {"rest"} |-> "a/b/c"]

\* C12: a lookup returns not-found or a terminal node: a node with a
\* non-empty pattern and the handler list some registration of that pattern
\* stored, also when the walk ends on a '*' node.
C12_TerminalOrNotFound ==
    \/ found.node = Nil
    \/ /\ found.pattern # ""
       /\ \E k \in 1..Len(regs) :
             /\ regs[k].method = found.method
             /\ regs[k].pattern = found.pattern
             /\ regs[k].handlers = found.handlers

(***************************************************************************)
(* Properties of the dispatch chain, checked under SpecChain.  Chain      *)
(* positions are the cursor values 0 .. Len(Chain) - 1.                   *)
(***************************************************************************)
InRequest == pc \in {"chain", "errors"}

\* ServeHTTP's c.Next() has returned and the request's handlers are known
ChainOver == pc = "errors"

\* a request has been served to the end
RequestDone == pc = "idle" /\ calls # <<>>

HandlerAt(pos) == Chain[pos + 1]

Invoked(pos) == \E i \in 1..Len(calls) : calls[i] = pos

\* the handler at pos was invoked and has returned
Returned(pos) ==
    /\ Invoked(pos)
    /\ \A i \in 1..Len(stack) : ~(stack[i].k = "handler" /\ stack[i].pos = pos)

Befores(n) == [i \in 1..n |-> [pos |-> i - 1, tag |-> "before"]]

Afters(n) == [i \in 1..n |-> [pos |-> n - i, tag |-> "after"]]

\* every handler but the last records "before", calls Next() once, records "after"
OnionChain ==
    /\ \A k \in 1..(Len(Chain) - 1) : Chain[k] = "mw"
    /\ Chain[Len(Chain)] \in {"handler", NotFoundHandler}

FinalTags ==
    IF Chain[Len(Chain)] = "handler"
    THEN <<[pos |-> Len(Chain) - 1, tag |-> "handler"]>>
    ELSE <<>>

\* C1: in a chain whose non-final handlers record "before", call Next() once
\* and record "after", the recorded order is the "before" tags in chain
\* order, the final handler, then the "after" tags in reverse chain order.
C1_OnionOrder ==
    (ChainOver /\ OnionChain)
        => order = Befores(Len(Chain) - 1) \o FinalTags \o Afters(Len(Chain) - 1)

C1_Witness ==
    /\ ChainOver
    /\ Chain = <<"mw", "mw", "handler">>
    /\ order = <<[pos |-> 0, tag |-> "before"], [pos |-> 1, tag |-> "before"],
                 [pos |-> 2, tag |-> "handler"], [pos |-> 1, tag |-> "after"],
                 [pos |-> 0, tag |-> "after"]>>

\* the handlers that call Abort() and return without calling Next(), with
\* the status and body each writes
Aborters == {"abortMw", "denyMw"}

AborterCode(h) == IF h = "abortMw" THEN 401 ELSE 403

AborterBody(h) == IF h = "abortMw" THEN "unauthorized" ELSE "forbidden"

\* the status written before the handler at pos ran, 0 if none
StatusBefore(pos) ==
    IF \E j \in 0..(pos - 1) : Invoked(j) /\ HandlerAt(j) = "cors" THEN 204 ELSE 0

\* C2: after a handler has called Abort() and returned without calling
\* Next(), no handler later in the chain is invoked in that request, and the
\* response keeps the status and body that handler wrote.
C2_AbortStopsAndKeepsOutput ==
    InRequest =>
        \A pos \in 0..(Len(Chain) - 1) :
            (Invoked(pos) /\ HandlerAt(pos) \in Aborters) =>
                /\ \A i \in 1..Len(calls) : calls[i] <= pos
                /\ Returned(pos) =>
                      /\ w.code = IF StatusBefore(pos) # 0 THEN StatusBefore(pos)
                                  ELSE AborterCode(HandlerAt(pos))
                      /\ HasPrefix(w.body, AborterBody(HandlerAt(pos)))

C2_Witness ==
    /\ ChainOver
    /\ Chain = <<"abortMw", "mw", "handler">>
    /\ calls = <<0>>
    /\ w.code = 401 /\ w.body = "unauthorized"

\* C3: a handler that returns without calling Next() or Abort() truncates
\* the chain: no handler after it is invoked in that request.
C3_NoNextTruncates ==
    InRequest =>
        \A pos \in 0..(Len(Chain) - 1) :
            (Invoked(pos) /\ HandlerAt(pos) = "cors")
                => \A i \in 1..Len(calls) : calls[i] <= pos

\* a handler that calls Next(err) with a non-nil error was invoked
ErrorRaised == \E pos \in 0..(Len(Chain) - 1) : Invoked(pos) /\ HandlerAt(pos) = "errMw"

\* C5: when a handler called Next(err) with a non-nil error, every
\* registered error handler has run exactly once, in registration order,
\* with that error, by the time the request is done.
C5_ErrorHandlersAllRun ==
    (RequestDone /\ ErrorRaised)
        => errCalls = [i \in 1..Len(errorHandlers) |->
                          [h |-> errorHandlers[i], err |-> "test error"]]

C5_Witness ==
    /\ RequestDone
    /\ ErrorRaised
    /\ Len(errorHandlers) = 2
    /\ Len(errCalls) = 2
    /\ c.err = NoErr

\* C17 as stated: a request that resolves to no route invokes no error
\* handler.
C17_NoErrorHandlerOnNotFound ==
    found.node = Nil => errCalls = <<>>

\* C17 amended: on a request that resolves to no route the 404 handler
\* records no error, and an error handler is invoked only if a middleware
\* of the chain called Next(err) with a non-nil error.
C17_NotFoundRecordsNoError ==
    (found.node = Nil /\ ~ErrorRaised) => c.err = NoErr /\ errCalls = <<>>

C17_Witness ==
    /\ RequestDone
    /\ found.path = "/nope"
    /\ ~ErrorRaised
    /\ Invoked(Len(middlewares))
    /\ Len(errorHandlers) = 2
    /\ errCalls = <<>>
    /\ w.code = 404 /\ w.body = "404 page not found"

\* the middleware that neither writes a status nor calls Abort()
Quiet == {"mw", "errMw", "twice"}

\* C18: for a request that resolves to no route the chain is the engine's
\* middleware in registration order and then the 404 handler, once; when no
\* middleware wrote a status or aborted, the chain leaves status 404 and
\* the body "404 page not found" (error handlers may append to the body).
C18_NotFoundFallback ==
    (InRequest /\ found.node = Nil) =>
        /\ c.handlers = middlewares \o <<NotFoundHandler>>
        /\ NotFoundHandler \notin Range(middlewares)
        /\ (ChainOver /\ Range(middlewares) \subseteq Quiet) =>
              /\ calls = [i \in 1..Len(c.handlers) |-> i - 1]
              /\ w.code = 404
              /\ HasPrefix(w.body, "404 page not found")
              /\ errCalls = <<>> => w.body = "404 page not found"

C18_Witness ==
    /\ ChainOver
    /\ found.path = "/nope"
    /\ found.node = Nil
    /\ c.handlers = <<"twice", "mw", NotFoundHandler>>
    /\ calls = <<0, 1, 2>>
    /\ w.code = 404 /\ w.body = "404 page not found"

\* the handlers that call Abort()
AbortCallers == {"abortMw", "denyMw", "abortNext"}

\* C19: the abort flag is set only by a handler that calls Abort(); after
\* errMw, at position k, called Next(err), every handler after k is invoked
\* up to and including the first one that calls Abort().
C19_ErrorDoesNotAbort ==
    InRequest =>
        /\ c.aborted =>
              \E pos \in 0..(Len(Chain) - 1) :
                  Invoked(pos) /\ HandlerAt(pos) \in AbortCallers
        /\ ChainOver =>
              \A k \in 0..(Len(Chain) - 1) :
                  (Invoked(k) /\ HandlerAt(k) = "errMw") =>
                      \A j \in (k + 1)..(Len(Chain) - 1) :
                          (\A i \in (k + 1)..(j - 1) : HandlerAt(i) \notin AbortCallers)
                              => Invoked(j)

C19_Witness ==
    /\ ChainOver
    /\ Chain = <<"errMw", "mw", "handler">>
    /\ c.err = "test error"
    /\ ~c.aborted
    /\ calls = <<0, 1, 2>>

(***************************************************************************)
(* Properties of the assembled chain, checked under SpecEngine, where the *)
(* groups nest linearly: routers[1] (root), routers[2] = /api,            *)
(* routers[3] = /api/v1, and each group middleware is given to one Use.   *)
(***************************************************************************)
\* the router a middleware was given to by Use: copies go to later groups
UsedOn(h) ==
    CHOOSE q \in DOMAIN routers :
        /\ h \in Range(routers[q].middlewares)
        /\ \A p \in DOMAIN routers : h \in Range(routers[p].middlewares) => q <= p

IndexIn(seq, x) == CHOOSE k \in 1..Len(seq) : seq[k] = x

\* the router the found route was registered through
RouterOfFound ==
    CHOOSE r \in DOMAIN routers : FullPattern(routers[r].prefix, "/x") = found.pattern

\* the part of the chain between the global middleware and the route's own
\* two handlers
GroupPart == SubSeq(Chain, Len(middlewares) + 1, Len(Chain) - 2)

OuterToInner(seq) ==
    /\ \A k \in 1..Len(seq) : seq[k] \in GroupMws /\ UsedOn(seq[k]) <= RouterOfFound
    /\ \A i, j \in 1..Len(seq) :
          i < j => \/ UsedOn(seq[i]) < UsedOn(seq[j])
                   \/ /\ UsedOn(seq[i]) = UsedOn(seq[j])
                      /\ IndexIn(routers[UsedOn(seq[i])].middlewares, seq[i])
                            < IndexIn(routers[UsedOn(seq[j])].middlewares, seq[j])

RoutePart == SubSeq(c.handlers, Len(middlewares) + 1, Len(c.handlers))

\* every handler of the request's chain was invoked once, in chain order
AllInvoked == calls = [i \in 1..Len(c.handlers) |-> i - 1]

RegisteredThrough(r) ==
    /\ r \in DOMAIN routers
    /\ \E k \in 1..Len(regs) :
          regs[k].pattern = FullPattern(routers[r].prefix, GroupPattern(r))

\* C13: with mwA given to /api, then /api/v1 created from it and given mwB,
\* a request to the route of /api/v1 runs exactly mwA, mwB and the handler,
\* and a request to the route of /api runs mwA and the handler (with mwLate
\* between them if /api was given it before); mwB is never added to the
\* root, to /api or to the sibling /api/v2, nor to any of their routes.
C13_NestedGroupChain ==
    /\ \A r \in (DOMAIN routers) \ {V1} : ~Used(r, "mwB")
    /\ \A k \in 1..Len(regs) :
          regs[k].pattern # "/api/v1/x" => "mwB" \notin Range(regs[k].handlers)
    /\ (ChainOver /\ found.pattern = "/api/v1/x")
          => RoutePart = <<"mwA", "mwB", RouteHandler(V1)>> /\ AllInvoked
    /\ (ChainOver /\ found.pattern = "/api/x")
          => /\ RoutePart \in {<<"mwA", RouteHandler(Api)>>,
                               <<"mwA", "mwLate", RouteHandler(Api)>>}
             /\ ~Used(Api, "mwLate") => RoutePart = <<"mwA", RouteHandler(Api)>>
             /\ AllInvoked

C13_Witness ==
    /\ ChainOver
    /\ found.pattern = "/api/v1/x"
    /\ RoutePart = <<"mwA", "mwB", "h3">>
    /\ calls = [i \in 1..Len(c.handlers) |-> i - 1]
    /\ V2 \in DOMAIN routers
    /\ \E k \in 1..Len(regs) :
          regs[k].pattern = "/api/x" /\ regs[k].handlers = <<"mwA", "h2">>

\* C14: mwLate, given to /api after /api/v1 was created from it, is never in
\* the middleware of /api/v1 nor in the chain of a route registered through
\* it, before or after that Use; the middleware /api had when a group was
\* created from it (mwA) is in that group's list.
C14_GroupCopiesAtGrouping ==
    /\ ~Used(V1, "mwLate")
    /\ \A r \in {V1, V2} : r \in DOMAIN routers => Used(r, "mwA")
    /\ \A k \in 1..Len(regs) :
          regs[k].pattern = "/api/v1/x" => "mwLate" \notin Range(regs[k].handlers)
    /\ (InRequest /\ found.pattern = "/api/v1/x") => "mwLate" \notin Range(c.handlers)

\* the route of /api was registered after mwLate was given, and the route of
\* /api/v1 after that
C14_Witness ==
    /\ ChainOver
    /\ found.pattern = "/api/v1/x"
    /\ Used(Api, "mwLate")
    /\ Len(regs) >= 2
    /\ regs[1].handlers = <<"mwA", "mwLate", "h2">>
    /\ regs[2].handlers = <<"mwA", "mwB", "h3">>
    /\ "mwLate" \notin Range(c.handlers)
    /\ AllInvoked

\* C15: mwG, given to the engine after a route was declared, is in the chain
\* of every request served afterwards: the chain is the engine's middleware,
\* then the handler list the route was registered with (or the 404 handler
\* when no route matches), and the handlers run in that order.
C15_GlobalAtRequestTime ==
    ChainOver =>
        /\ c.handlers = middlewares \o
                            (IF found.node # Nil
                             THEN HandlersOf(found.method, found.pattern)
                             ELSE <<NotFoundHandler>>)
        /\ AllInvoked

\* the first route declared is requested after mwG was given
C15_Witness ==
    /\ ChainOver
    /\ middlewares = <<"mwG">>
    /\ found.node # Nil
    /\ found.pattern = regs[1].pattern
    /\ c.handlers = <<"mwG">> \o regs[1].handlers
    /\ order[1] = [pos |-> 0, tag |-> "before"]
    /\ AllInvoked

\* C16: the route a group registered with pattern q resolves, from the
\* engine, at the group's concatenated prefix followed by q, to the handlers
\* registered there, and q alone does not resolve.
C16_GroupsShareForest ==
    /\ \A r \in (DOMAIN routers) \ {1} :
          RegisteredThrough(r) =>
              LET full == FullPattern(routers[r].prefix, GroupPattern(r))
                  hit  == getRoute(routes, "GET", routers[r].prefix \o GroupPattern(r))
              IN /\ hit.node # Nil
                 /\ hit.pattern = full
                 /\ hit.handlers = HandlersOf("GET", full)
                 /\ getRoute(routes, "GET", GroupPattern(r)).node = Nil
                 /\ Searched("GET", full) => found.handlers = HandlersOf("GET", full)
    /\ \A path \in {"/", "/x", "/v1/x"} : Searched("GET", path) => found.node = Nil

C16_Witness ==
    /\ Searched("GET", "/api/v1/x")
    /\ found.pattern = "/api/v1/x"
    /\ found.handlers = <<"mwA", "mwB", "h3">>
    /\ routers[V1].prefix = "/api/v1"
    /\ RegisteredThrough(V2)
    /\ getRoute(routes, "GET", "/api/v2/").pattern = "/api/v2"

(***************************************************************************)
(* Properties of the stored error, checked under SpecErrors.              *)
(***************************************************************************)
ErrTexts == {"first error", "second error", "late error"}

\* the error of the most recent Next call that gave one, from the record
\* the middleware keep: NoErr if there was none
LastGiven ==
    LET ks == {k \in 1..Len(order) : order[k].tag \in ErrTexts}
    IN IF ks = {} THEN NoErr
       ELSE order[CHOOSE k \in ks : \A j \in ks : j <= k].tag

\* C20: when the chain has returned the stored error is the one given by
\* the most recent Next call that gave a non-nil error (none if there was
\* no such call), and it is the error every error handler is called with.
C20_LastWriterWins ==
    /\ ChainOver => c.err = LastGiven
    /\ \A i \in 1..Len(errCalls) : errCalls[i].err = LastGiven

C20_Witness ==
    /\ RequestDone
    /\ middlewares = <<"errAfter", "errFirst", "nilMw">>
    /\ calls = <<0, 1, 2, 3>>
    /\ Len(errCalls) = 2
    /\ errCalls[1].err = "late error"

(***************************************************************************)
(* SpecLookups: the forest of TestRouterConcurrency is built, and then    *)
(* goroutines call Router.getRoute at the same time.  A goroutine's call  *)
(* is taken one step of searchRoute at a time, so that the calls          *)
(* interleave: frames is its stack of searchRoute activations (node,      *)
(* height, index k of the child under examination), rv the value the      *)
(* activation that just returned handed to its caller, params the map     *)
(* made by its getRoute call.  The last route lies under two parameters  *)
(* at the root: a search for /users/42/extra reaches it only after it has *)
(* left the branch of /users/:id.                                         *)
(***************************************************************************)
MaxThreads == 2

ForestRoutes ==
    <<[method |-> "GET", pattern |-> "/users/:id"],
      [method |-> "POST", pattern |-> "/users"],
      [method |-> "GET", pattern |-> "/files/*rest"],
      [method |-> "GET", pattern |-> "/:a/:b/extra"]>>

LookupMethods == {"GET", "POST", "PUT"}

LookupPaths == {"/users/123", "/users/42/extra", "/files/a/b", "/users"}

BuildForest ==
    /\ Len(regs) < Len(ForestRoutes)
    /\ LET k == Len(regs) + 1 IN
       Handle(1, ForestRoutes[k].method, ForestRoutes[k].pattern,
              <<RouteHandler(k)>>)

ForestBuilt == Len(regs) = Len(ForestRoutes)

SearchFrame(n, height) == [n |-> n, height |-> height, k |-> 1]

\* every goroutine's searchRoute writes the map of the first goroutine
ParamsSlotShared(t) == 1

\* the map a goroutine's searchRoute writes: the one its getRoute made
ParamsSlot(t) == t

Bind(ls, t, name, value) ==
    [ls EXCEPT ![ParamsSlot(t)].params = MapSet(@, name, value)]

\* a backtracking that leaves the binding in the map
UnbindForgotten(ls, t, name) == ls

Unbind(ls, t, name) ==
    [ls EXCEPT ![ParamsSlot(t)].params = MapDelete(@, name)]

\* a goroutine enters getRoute: the method's tree is looked up, the path
\* split and the params map made; searchRoute is about to run on the root
StartLookup ==
    \E m \in LookupMethods, path \in LookupPaths :
        /\ ForestBuilt
        /\ pc = "idle"
        /\ Len(lookups) < MaxThreads
        /\ serving' = TRUE
        /\ lookups' = Append(lookups,
               [method |-> m, path |-> path, parts |-> parsePattern(path),
                params |-> EmptyMap, rv |-> Nil,
                st     |-> IF m \in DOMAIN routes THEN "call" ELSE "done",
                frames |-> IF m \in DOMAIN routes
                           THEN <<SearchFrame(1, 0)>> ELSE <<>>,
                out    |-> [node |-> Nil, params |-> EmptyMap]])
        /\ routes' = ForestAfterLookup(routes, m, path)
        /\ UNCHANGED <<routers, middlewares, errorHandlers, pc, c, w, stack,
                       found, regs, calls, order, errCalls>>

LookupTree(t) == routes[lookups[t].method]

TopFrame(t) == lookups[t].frames[Len(lookups[t].frames)]

PopFrame(l) == SubSeq(l.frames, 1, Len(l.frames) - 1)

LookupStep(ls) ==
    /\ lookups' = ls
    /\ UNCHANGED <<routes, routers, middlewares, errorHandlers, serving, pc,
                   c, w, stack, found, regs, calls, order, errCalls>>

\* searchRoute's first test: the parts are used up, or the node is a '*'
LookupEnter ==
    \E t \in DOMAIN lookups :
        /\ lookups[t].st = "call"
        /\ LET l    == lookups[t]
               f    == TopFrame(t)
               node == LookupTree(t)[f.n]
           IN IF Len(l.parts) = f.height \/ HasPrefix(node.part, "*")
              THEN LookupStep([lookups EXCEPT
                       ![t].rv = IF node.pattern = "" THEN Nil ELSE f.n,
                       ![t].frames = PopFrame(l),
                       ![t].st = "ret"])
              ELSE LookupStep([lookups EXCEPT ![t].st = "loop"])

\* one turn of searchRoute's loop over the children
LookupVisit ==
    \E t \in DOMAIN lookups :
        /\ lookups[t].st = "loop"
        /\ LET l    == lookups[t]
               f    == TopFrame(t)
               tree == LookupTree(t)
               top  == Len(l.frames)
           IN IF f.k > Len(tree[f.n].children)
              THEN LookupStep([lookups EXCEPT ![t].rv = Nil,
                                              ![t].frames = PopFrame(l),
                                              ![t].st = "ret"])
              ELSE LET id    == tree[f.n].children[f.k]
                       child == tree[id]
                       part  == l.parts[f.height + 1]
                       name  == SubSeq(child.part, 2, Len(child.part))
                   IN IF ~ChildMatches(child, part)
                      THEN LookupStep([lookups EXCEPT ![t].frames[top].k = @ + 1])
                      ELSE IF child.isWild /\ CharAt(child.part, 1) = "*"
                      THEN LookupStep(
                               [Bind(lookups, t, name,
                                     JoinFrom(l.parts, f.height + 1))
                                EXCEPT ![t].rv = id,
                                       ![t].frames = PopFrame(l),
                                       ![t].st = "ret"])
                      ELSE LookupStep(
                               [(IF child.isWild /\ CharAt(child.part, 1) = ":"
                                 THEN Bind(lookups, t, name, part)
                                 ELSE lookups)
                                EXCEPT ![t].frames =
                                           Append(@, SearchFrame(id, f.height + 1)),
                                       ![t].st = "call"])

\* the recursive call came back to the loop: a node is handed on, a nil
\* takes the ':' binding out again and moves to the next child
LookupResume ==
    \E t \in DOMAIN lookups :
        /\ lookups[t].st = "ret"
        /\ lookups[t].frames # <<>>
        /\ LET l     == lookups[t]
               f     == TopFrame(t)
               tree  == LookupTree(t)
               top   == Len(l.frames)
               child == tree[tree[f.n].children[f.k]]
               name  == SubSeq(child.part, 2, Len(child.part))
           IN IF l.rv # Nil
              THEN LookupStep([lookups EXCEPT ![t].frames = PopFrame(l)])
              ELSE LookupStep(
                       [(IF child.isWild /\ CharAt(child.part, 1) = ":"
                         THEN Unbind(lookups, t, name)
                         ELSE lookups)
                        EXCEPT ![t].frames[top].k = @ + 1,
                               ![t].st = "loop"])

\* searchRoute returned to getRoute: the node with the params, or nil, nil
LookupFinish ==
    \E t \in DOMAIN lookups :
        /\ lookups[t].st = "ret"
        /\ lookups[t].frames = <<>>
        /\ LookupStep([lookups EXCEPT
               ![t].st = "done",
               ![t].out = IF lookups[t].rv # Nil
                          THEN [node |-> lookups[t].rv,
                                params |-> lookups[ParamsSlot(t)].params]
                          ELSE [node |-> Nil, params |-> EmptyMap]])

NextLookups ==
    \/ BuildForest
    \/ StartLookup
    \/ LookupEnter
    \/ LookupVisit
    \/ LookupResume
    \/ LookupFinish

SpecLookups == Init /\ [][NextLookups]_vars

(***************************************************************************)
(* Properties of concurrent lookups, checked under SpecLookups.           *)
(***************************************************************************)
\* the values a lookup of these parts can bind: a part, or the parts from
\* some position on joined with '/'
OwnValues(parts) ==
    {parts[i] : i \in 1..Len(parts)}
        \cup {JoinFrom(parts, i) : i \in 1..Len(parts)}

\* C21: on the built forest, a lookup that ran together with other lookups
\* returns the node and the params the same lookup returns when run alone,
\* and at every step the params map of a lookup holds only values taken
\* from that lookup's own path.
C21_ConcurrentLookups ==
    \A t \in DOMAIN lookups :
        /\ \A name \in DOMAIN lookups[t].params :
               lookups[t].params[name] \in OwnValues(lookups[t].parts)
        /\ lookups[t].st = "done" =>
               LET r == getRoute(routes, lookups[t].method, lookups[t].path)
               IN /\ lookups[t].out.node = r.node
                  /\ lookups[t].out.params = r.params

\* two lookups of different paths have both finished, each with a binding
C21_Witness ==
    /\ Len(lookups) = 2
    /\ \A t \in DOMAIN lookups : lookups[t].st = "done"
    /\ lookups[1].path = "/users/123" /\ lookups[1].out.params = [id |-> "123"]
    /\ lookups[2].path = "/files/a/b" /\ lookups[2].out.params = [rest |-> "a/b"]

(***************************************************************************)
(* Properties of the pooled Context, checked under SpecPool.              *)
(***************************************************************************)
\* the request in service has not invoked a handler yet
AtRequestStart == pc = "chain" /\ calls = <<>>

\* what the handlers of the request in service got from c.Get
Observed == {order[i].tag : i \in {j \in 1..Len(order) : order[j].tag # "handler"}}

\* C22: between requests the pooled Context is reset (empty params and
\* store, cursor -1, flag unset, no error, no handlers, status not written);
\* a request starts on it with its own params only, an empty store, the
\* flag unset, no error and the status unwritten (its cursor at 0, inside
\* ServeHTTP's Next); and c.Get never returns a value another request set.
C22_PooledContextClean ==
    /\ pc = "idle" => c = PoolNew
    /\ AtRequestStart =>
           /\ c.store = EmptyMap /\ c.index = 0 /\ ~c.aborted
           /\ c.err = NoErr /\ ~c.statusCodeWritten
    /\ pc # "idle" => c.params = found.params
    /\ pc # "idle" => Observed \subseteq {"", found.path}

\* the start of a request that follows a request in which the store was
\* set and an error recorded and handled
C22_Witness ==
    /\ middlewares = <<"session", "errMw">>
    /\ errorHandlers # <<>>
    /\ AtRequestStart
    /\ found.path = "/users/2"
    /\ c.params = [id |-> "2"]

(***************************************************************************)
(* Properties of repeated and per-method registration, under SpecRouter.  *)
(***************************************************************************)
\* the earlier registrations of the (method, pattern) of the k-th
Earlier(k) ==
    {j \in 1..(k - 1) :
        regs[j].method = regs[k].method /\ regs[j].pattern = regs[k].pattern}

\* the k-th registration repeats the (method, pattern) of an earlier one
Repeats(k) == Earlier(k) # {}

ForestAfter(k) == Build(SubSeq(regs, 1, k), EmptyForest)

\* C23 (stated of the latest registration; every earlier one was the
\* latest in an earlier state): a registration that repeats an earlier
\* (method, pattern) adds no node to the method's tree; afterwards a lookup
\* that ends at a terminal node of the pattern returns the handler list of
\* the repeating registration, and no lookup returns the handler list of
\* an earlier registration of the pair.
C23_ReRegisterOverwrites ==
    \A k \in {Len(regs)} \ {0} :
        Repeats(k) =>
            LET m    == regs[k].method
                pre  == ForestAfter(k - 1)
                post == routes
            IN /\ Len(post[m]) = Len(pre[m])
               /\ \A path \in RouterPaths :
                      LET b == getRoute(post, m, path)
                      IN /\ b.node # Nil /\ b.pattern # ""
                                /\ b.pattern = regs[k].pattern
                                => b.handlers = regs[k].handlers
                         /\ \A j \in Earlier(k) :
                                b.handlers # regs[j].handlers

\* "/users/:id" was registered twice and "/users/42" looked up: the
\* handlers found are those of the second registration
C23_Witness ==
    /\ Len(regs) = 2 /\ Repeats(2)
    /\ regs[2].pattern = "/users/:id"
    /\ Searched(regs[2].method, "/users/42")
    /\ found.handlers = <<RouteHandler(2)>>

RegisteredUnder(m) == \E k \in 1..Len(regs) : regs[k].method = m

\* C24 (the first part stated of the latest registration; every earlier
\* one was the latest in an earlier state): a registration leaves the
\* result of every lookup under every other method as it was, and a lookup
\* under a method string that no route was registered under (compared
\* exactly, so "get" is not "GET") finds nothing.
C24_MethodIsolation ==
    /\ \A k \in {Len(regs)} \ {0} :
           LET pre  == ForestAfter(k - 1)
               post == routes
           IN \A m \in SearchMethods \ {regs[k].method}, path \in RouterPaths :
                  getRoute(post, m, path) = getRoute(pre, m, path)
    /\ \A m \in SearchMethods, path \in RouterPaths :
           ~RegisteredUnder(m) => getRoute(routes, m, path) = NotFound
    /\ \A m \in SearchMethods :
           serving /\ found.method = m /\ ~RegisteredUnder(m)
               => found.node = Nil

\* "/users" is registered under GET and then under POST; the lookup of
\* GET "/users" finds the first registration's handler
C24_Witness ==
    /\ Len(regs) = 2
    /\ regs[1].method = "GET" /\ regs[1].pattern = "/users"
    /\ regs[2].method = "POST" /\ regs[2].pattern = "/users"
    /\ Searched("GET", "/users")
    /\ found.handlers = <<RouteHandler(1)>>

\* C25: in every tree of the forest, a node whose pattern is empty (a
\* node that is not terminal) has an empty handler list.
C25_NonTerminalHasNoHandlers ==
    \A m \in DOMAIN routes :
        \A n \in 1..Len(routes[m]) :
            routes[m][n].pattern = "" => routes[m][n].handlers = <<>>

(***************************************************************************)
(* Properties of parsePattern, checked under SpecRouter on the patterns   *)
(* registered and the paths looked up.                                    *)
(***************************************************************************)
SlashFree(part) == \A i \in 1..Len(part) : CharAt(part, i) # "/"

\* no part comes after the first part that begins with '*'
NothingAfterWildcard(parts) ==
    \A i \in 1..Len(parts) : CharAt(parts[i], 1) = "*" => i = Len(parts)

\* C26: the split of every registered pattern has no part after its first
\* part beginning with '*', and none of its parts contains '/'.
C26_SplitStopsAtWildcard ==
    \A k \in 1..Len(regs) :
        LET parts == parsePattern(regs[k].pattern)
        IN /\ NothingAfterWildcard(parts)
           /\ \A i \in 1..Len(parts) : SlashFree(parts[i])

\* strings.Split(s, "/") without its empty strings: cur is the segment
\* being read
RECURSIVE SplitLoop(_, _, _, _)
SplitLoop(s, i, cur, parts) ==
    IF i > Len(s) THEN IF cur = "" THEN parts ELSE Append(parts, cur)
    ELSE IF CharAt(s, i) = "/"
         THEN SplitLoop(s, i + 1, "", IF cur = "" THEN parts ELSE Append(parts, cur))
         ELSE SplitLoop(s, i + 1, cur \o CharAt(s, i), parts)

SlashSegments(s) == SplitLoop(s, 1, "", <<>>)

\* s, split, is its non-empty segments in order, and a further slash in
\* front of it or behind it does not change the split
SlashesIgnored(s) ==
    /\ parsePattern(s) = SlashSegments(s)
    /\ parsePattern(s \o "/") = parsePattern(s)
    /\ parsePattern("/" \o s) = parsePattern(s)

\* C27: "/" splits to no parts; every registered pattern and every path
\* looked up splits to its non-empty segments in order, and to the same
\* list with a further leading or trailing slash; and the path looked up
\* resolves, with a further trailing slash, as it did.
C27_SlashesIgnored ==
    /\ parsePattern("/") = <<>>
    /\ \A k \in 1..Len(regs) : SlashesIgnored(regs[k].pattern)
    /\ serving =>
           /\ SlashesIgnored(found.path)
           /\ Resolution(routes, found.method, found.path \o "/")
                  = <<found.pattern, found.handlers, found.params>>

(***************************************************************************)
(* Properties of the response status, checked under SpecChain.            *)
(***************************************************************************)
\* the running chain handler is about to call c.Status or c.String
StatusCall == InHandler /\ CurOp.op \in {"Status", "String"}

\* ServeHTTP is about to call the next error handler
ErrorHandlerCall ==
    pc = "errors" /\ ErrorsDue /\ Len(errCalls) < Len(errorHandlers)

\* C28: in every step of a request, WriteHeader has been called at most
\* once on its writer; a status once written stays as it is; and the call
\* of Status, String or JSON (by a chain handler or an error handler) that
\* finds no status written writes its own code.
C28_FirstStatusWins ==
    [][/\ w'.headers <= 1
       /\ pc # "idle" /\ w.headers = 1 => w'.code = w.code /\ w'.headers = 1
       /\ StatusCall /\ w.headers = 0 => w'.code = CurOp.code
       /\ ErrorHandlerCall /\ w.headers = 0
              => w'.code = ErrCode(errorHandlers[Len(errCalls) + 1])[1].code
      ]_vars

\* cors called Status(204), the route's handler then String(200, "ok"),
\* and both error-free: the status is 204, written once
C28_Witness ==
    /\ middlewares = <<"cors">>
    /\ found.path = "/test"
    /\ calls = <<0, 1>>
    /\ w.code = 204 /\ w.body = "ok" /\ w.headers = 1

(***************************************************************************)
(* Properties of the Recover middleware, checked under SpecRecover.       *)
(***************************************************************************)
\* the chain positions at which a handler of the request has panicked
PanicAt == {order[i].pos : i \in {j \in 1..Len(order) : order[j].tag = "panic"}}

\* Recover stands in the request's chain ahead of position pos
RecoverAhead(pos) == \E j \in 1..pos : Chain[j] = "recover"

\* the error the tests expect of a panicking handler
ExpectedError(h) ==
    CASE h = "panicStr" -> "test panic"
      [] h = "panicErr" -> "custom error"
      [] h = "panicInt" -> "42"

\* C29: when a handler has panicked with Recover ahead of it in the chain,
\* the panic has not left ServeHTTP; until the request is released the
\* abort flag is set and the stored error is the panic value (the error,
\* or the formatted text of another value); no handler has been invoked
\* after the panicking one; and the error handlers are called in order,
\* all of them by the end of the request, each with that error.
C29_RecoverHandlesPanic ==
    \A pos \in PanicAt :
        RecoverAhead(pos) =>
            LET err == ExpectedError(Chain[pos + 1]) IN
            /\ pc # "crashed"
            /\ calls[Len(calls)] = pos
            /\ pc \in {"chain", "errors"} => c.aborted /\ c.err = err
            /\ \A i \in 1..Len(errCalls) :
                   errCalls[i] = [h |-> errorHandlers[i], err |-> err]
            /\ pc = "idle" => Len(errCalls) = Len(errorHandlers)

\* the request whose handler panicked with the int 42 behind mw and Recover
\* is over, and both error handlers were given "42"
C29_Witness ==
    /\ pc = "idle"
    /\ middlewares = <<"mw", "recover">>
    /\ PanicAt = {2}
    /\ Chain[3] = "panicInt"
    /\ Len(errCalls) = 2
    /\ errCalls[2].err = "42"

(***************************************************************************)
(* Properties of Abort, checked under SpecChain.                          *)
(***************************************************************************)
\* the handlers whose first call is Abort() and that go on afterwards:
\* abortMw writes the response, abortNext calls Next() and records "after"
AbortsFirst == {"abortMw", "abortNext"}

\* the chain is n times mw and then a handler that calls Abort() first
AbortBehind(n) ==
    /\ n < Len(Chain)
    /\ \A j \in 1..n : Chain[j] = "mw"
    /\ Chain[n + 1] \in AbortsFirst

\* what the handler at position n records after its Abort()
TagsAfterAbort(n) ==
    IF Chain[n + 1] = "abortNext" THEN <<[pos |-> n, tag |-> "after"]>> ELSE <<>>

\* C30: when the handler at position n calls Abort() behind n handlers that
\* each record "before", call Next() and record "after", then by the end of
\* the chain the code after the Abort() has run (abortMw's response is
\* written, abortNext's "after" recorded), the n earlier handlers have
\* recorded their "after" in reverse chain order, and no handler behind
\* position n was invoked.
C30_AbortDoesNotUnwind ==
    ChainOver =>
        \A n \in 0..(Len(Chain) - 1) :
            AbortBehind(n) =>
                /\ calls = [i \in 1..(n + 1) |-> i - 1]
                /\ order = Befores(n) \o TagsAfterAbort(n) \o Afters(n)
                /\ Chain[n + 1] = "abortMw"
                       => w.code = 401 /\ w.body = "unauthorized"

\* mw, then abortNext, then the route's handler: abortNext's "after" and
\* then mw's "after" are recorded, the route's handler is not invoked
C30_Witness ==
    /\ ChainOver
    /\ Chain = <<"mw", "abortNext", "handler">>
    /\ calls = <<0, 1>>
    /\ order = <<[pos |-> 0, tag |-> "before"], [pos |-> 1, tag |-> "after"],
                 [pos |-> 0, tag |-> "after"]>>

(***************************************************************************)
(* Properties of the cursor, the flag and the error handlers over the     *)
(* steps of a request, checked under SpecChain.                           *)
(***************************************************************************)
\* C31: a step in which an error handler is invoked is taken after
\* ServeHTTP's c.Next() has returned (no Next and no handler is still
\* active) and before the Context is reset (it still holds the chain and
\* the error); a step in which a handler calls Next, with or without an
\* error, invokes no error handler.
C31_ErrorHandlersDeferred ==
    [][/\ (errCalls' # errCalls /\ errCalls' # <<>>)
              => /\ pc = "errors" /\ pc' = "errors"
                 /\ stack = <<>>
                 /\ c.handlers = Chain
                 /\ c.err # NoErr
       /\ (InHandler /\ CurOp.op = "Next") => errCalls' = errCalls
      ]_vars

\* errMw passed an error to Next, mw and the route's handler ran to the
\* end inside that call, and then the first error handler was invoked
C31_Witness ==
    /\ pc = "errors"
    /\ Chain = <<"errMw", "mw", "handler">>
    /\ order = <<[pos |-> 1, tag |-> "before"], [pos |-> 2, tag |-> "handler"],
                 [pos |-> 1, tag |-> "after"]>>
    /\ Len(errCalls) = 1
    /\ c.handlers = Chain

\* C32: from step to step of a request the cursor does not decrease; a
\* step that invokes a handler invokes the one at the cursor, and the
\* cursor is then greater than at every earlier invocation of the request
\* (so no chain position is invoked twice).
C32_CursorMonotone ==
    [][/\ (InRequest /\ pc' \in {"chain", "errors"}) => c'.index >= c.index
       /\ (calls' # calls /\ calls' # <<>>)
              => /\ calls' = Append(calls, c.index)
                 /\ \A i \in 1..Len(calls) : calls[i] < c.index
      ]_vars

\* twice called Next() two times around mw and the route's handler: each
\* of the three was invoked once, and the cursor went past the end
C32_Witness ==
    /\ ChainOver
    /\ Chain = <<"twice", "mw", "handler">>
    /\ calls = <<0, 1, 2>>
    /\ c.index > Len(Chain)

\* C33: a step that invokes a handler starts with the abort flag unset,
\* and a flag that is set stays set in every step up to the reset.
C33_NoInvocationWhenAborted ==
    [][/\ (calls' # calls /\ calls' # <<>>) => ~c.aborted
       /\ (InRequest /\ c.aborted /\ pc' \in {"chain", "errors"}) => c'.aborted
      ]_vars

\* abortNext called Abort() and then Next(): neither mw nor the route's
\* handler was invoked, and the flag is still set after the chain
C33_Witness ==
    /\ ChainOver
    /\ Chain = <<"abortNext", "mw", "handler">>
    /\ calls = <<0>>
    /\ order = <<[pos |-> 0, tag |-> "after"]>>
    /\ c.aborted

(***************************************************************************)
(* Termination of the chain, checked under FairChain.                     *)
(***************************************************************************)
\* C34: a request never invokes more handlers than its chain has, and
\* every request whose chain has started comes to its end: the Context
\* reset and back in the pool.
C34_ChainTerminates ==
    /\ [](InRequest => Len(calls) <= Len(Chain))
    /\ (pc = "chain") ~> (pc = "idle" /\ c = PoolNew)

\* the request whose chain was twice (Next() two times), abortNext (Abort()
\* then Next()) and the route's handler is over
C34_Witness ==
    /\ RequestDone
    /\ Chain = <<"twice", "abortNext", "handler">>
    /\ calls = <<0, 1>>
    /\ c = PoolNew

(***************************************************************************)
(* Properties of the trees and of the params of a lookup, checked under   *)
(* SpecRouter.                                                            *)
(***************************************************************************)
\* the list indexes of the dynamic (':' or '*') children of node n
DynamicKids(tree, n) ==
    {k \in 1..Len(tree[n].children) : tree[tree[n].children[k]].isWild}

ParamNames(pattern) ==
    LET segs == SlashSegments(pattern) IN
    {SubSeq(segs[i], 2, Len(segs[i])) :
        i \in {j \in 1..Len(segs) : CharAt(segs[j], 1) \in {":", "*"}}}

\* C36: a lookup that found a node bound exactly the names of the ':' and
\* '*' segments of that node's pattern (none for a literal pattern).
C36_ParamsMatchPattern ==
    (serving /\ found.node # Nil)
        => DOMAIN found.params = ParamNames(found.pattern)

Parent(tree, n) ==
    CHOOSE p \in 1..Len(tree) :
        \E k \in 1..Len(tree[p].children) : tree[p].children[k] = n

\* the nodes from the root down to n
RECURSIVE Branch(_, _)
Branch(tree, n) ==
    IF n = 1 THEN <<1>> ELSE Append(Branch(tree, Parent(tree, n)), n)

\* the (name, value) pairs searchRoute binds on its way down the branch
\* for these parts: the i-th node below the root is matched with part i
BranchBindings(tree, branch, parts) ==
    {<<SubSeq(tree[branch[i]].part, 2, Len(tree[branch[i]].part)),
       IF CharAt(tree[branch[i]].part, 1) = ":" THEN parts[i - 1]
       ELSE JoinFrom(parts, i - 1)>> :
        i \in {j \in 2..Len(branch) : tree[branch[j]].isWild}}

OnBranchOnly(params, tree, branch, parts) ==
    \A name \in DOMAIN params :
        <<name, params[name]>> \in BranchBindings(tree, branch, parts)

\* C38: while a lookup is searching, its params map holds only bindings
\* made on the branch it is on (none from a branch it has left); a lookup
\* that ended without a node has an empty map; and a lookup that ended
\* with a node returns only bindings made on the branch to that node.
C38_NoStaleBindings ==
    \A t \in DOMAIN lookups :
        LET l == lookups[t] IN
        /\ l.st \in {"call", "loop"}
               => OnBranchOnly(l.params, LookupTree(t),
                               [i \in 1..Len(l.frames) |-> l.frames[i].n], l.parts)
        /\ (l.st = "done" /\ l.out.node = Nil) => l.params = EmptyMap
        /\ (l.st = "done" /\ l.out.node # Nil)
               => OnBranchOnly(l.out.params, LookupTree(t),
                               Branch(LookupTree(t), l.out.node), l.parts)

\* GET /users/42/extra went into "/users/:id", bound id, failed there, and
\* was then found on "/:a/:b/extra": id is not among its params
C38_Witness ==
    \E t \in DOMAIN lookups :
        /\ lookups[t].st = "done"
        /\ lookups[t].method = "GET" /\ lookups[t].path = "/users/42/extra"
        /\ lookups[t].out.params = [a |-> "users", b |-> "42"]

(***************************************************************************)
(* Properties of a route's handler list, checked under SpecGroups.        *)
(***************************************************************************)
\* the registration the found route was made by (SpecGroups registers each
\* full pattern once)
RegOfFound == CHOOSE k \in 1..Len(regs) : regs[k].pattern = found.pattern

\* C39: a Router.Use on a group changes no route of the forest; a route
\* registered through a group has a group middleware in its handler list
\* exactly if the group held it at that moment (by its own Use or by the
\* copy made when it was created); and the chain of a request is the
\* engine's middleware followed by the list fixed at registration,
\* whatever the group was given afterwards.
C39_SnapshotAtRegistration ==
    [][/\ (routers' # routers /\ Len(routers') = Len(routers))
             => routes' = routes /\ regs' = regs
       /\ \A r \in (DOMAIN routers) \ {1} :
             (/\ Len(regs') = Len(regs) + 1
              /\ regs'[Len(regs')].pattern
                    = FullPattern(routers[r].prefix, GroupPattern(r)))
                => /\ \A m \in {"mwA", "mwB", "mwLate"} :
                         m \in Range(regs'[Len(regs')].handlers) <=> Used(r, m)
                   /\ SubSeq(regs'[Len(regs')].handlers, 1,
                             Len(routers[r].middlewares)) = routers[r].middlewares
       /\ (InRequest' /\ found'.node # Nil)
             => RoutePart' = regs'[RegOfFound'].handlers]_vars

\* /api registered its route, was given mwLate afterwards, and /api/v2 was
\* created from it and registered its route after that: the request to
\* /api/x runs mwA and the handler only, the route of /api/v2 has mwLate
C39_Witness ==
    /\ ChainOver
    /\ found.pattern = "/api/x"
    /\ Used(Api, "mwLate")
    /\ RoutePart = <<"mwA", "h2">>
    /\ calls = [i \in 1..Len(c.handlers) |-> i - 1]
    /\ \E k \in 1..Len(regs) :
          /\ regs[k].pattern = "/api/v2"
          /\ regs[k].handlers = <<"mwA", "mwLate", "h4">>

==============================================================================
